---- MODULE Spec2Model ----
(***************************************************************************)
(* The HTTP-bridge WebSocket of src/cmd/webclient/polyfill.js              *)
(* (createHttpBridgeWebSocket): one socket, its connect request, its send  *)
(* queue and drain activity, its poll loop and its close notification.     *)
(*                                                                         *)
(* JavaScript runs one task at a time, so every action below is one task   *)
(* turn: a call of the application (send, close, binaryType) or the        *)
(* continuation of an async function after an awaited request settles, run *)
(* up to its next await.  Every event dispatched is recorded in the log    *)
(* `events`; the application's listeners either return or call             *)
(* socket.close() while the event is being dispatched.                     *)
(*                                                                         *)
(* Spec is the socket with its four handler slots set by the application   *)
(* in the turn that constructs it, PollSpec the same socket without send() *)
(* calls.  DispatchSpec is the registry of listeners and handlers and      *)
(* socket.dispatchEvent, from the constructed socket on.  CodecSpec is the *)
(* encoding of an ArrayBuffer by the drain function and the decoding of    *)
(* the result by decodeMessage.                                            *)
(*                                                                         *)
(* Strings are sequences of code points, byte arrays are sequences of      *)
(* 0..255, radix-64 text is a sequence over 0..63 with B64Pad for '=' and  *)
(* B64Bad for a character outside the alphabet.                            *)
(***************************************************************************)
EXTENDS Integers, Sequences, FiniteSets, TLC

\* ---------------------------------------------------------------- bounds
MaxSends == 2
MaxPolls == 1
MaxBatch == 2
MaxDispatch == 2
MaxLen == 3

\* ------------------------------------------------------ program constants
CONNECTING == 0
OPEN == 1
CLOSING == 2
CLOSED == 3

chunkSize == 32768

B64Pad == 64
B64Bad == 65

\* `undefined`, for a property a message does not carry
Undefined == "undefined"

\* ------------------------------------------------------------ frame codec
RECURSIVE SumSeq(_)
SumSeq(q) == IF q = <<>> THEN 0 ELSE Head(q) + SumSeq(Tail(q))

\* number of bytes TextEncoder writes for one code point
UTF8Len(cp) == IF cp < 128 THEN 1 ELSE IF cp < 2048 THEN 2 ELSE IF cp < 65536 THEN 3 ELSE 4

textEncoderLength(str) == SumSeq([i \in 1..Len(str) |-> UTF8Len(str[i])])

calculateSize(data) ==
    IF data.kind = "string" THEN textEncoderLength(data.data)
    ELSE IF data.kind = "arraybuffer" THEN Len(data.data)
    ELSE IF data.kind = "view" THEN Len(data.data)
    ELSE IF data.kind = "blob" THEN Len(data.data)
    ELSE 0

\* btoa: four characters for every three bytes, '=' where the last group is short
btoa(b) ==
    LET n == Len(b)
        byte(k) == IF k <= n THEN b[k] ELSE 0
    IN IF n = 0 THEN <<>>
       ELSE [j \in 1..(4 * ((n + 2) \div 3)) |->
               LET k == 3 * ((j - 1) \div 4)
                   p == (j - 1) % 4
               IN IF p = 0 THEN byte(k + 1) \div 4
                  ELSE IF p = 1 THEN (byte(k + 1) % 4) * 16 + (byte(k + 2) \div 16)
                  ELSE IF p = 2
                  THEN IF k + 2 > n THEN B64Pad
                       ELSE (byte(k + 2) % 16) * 4 + (byte(k + 3) \div 64)
                  ELSE IF k + 3 > n THEN B64Pad ELSE byte(k + 3) % 64]

Min(a, b) == IF a < b THEN a ELSE b

\* the loop of encodeBinary from index i (0-based) on: the chunks' characters
RECURSIVE encodeChunks(_, _)
encodeChunks(bytes, i) ==
    IF i < Len(bytes)
    THEN SubSeq(bytes, i + 1, Min(i + chunkSize, Len(bytes)))
         \o encodeChunks(bytes, i + chunkSize)
    ELSE <<>>

\* encodeBinary with every chunk one byte short: subarray(i, i + chunkSize - 1)
encodeBinary_ShortChunks(bytes) ==
    btoa(SelectSeq([i \in 1..Len(bytes) |-> IF i % chunkSize = 0 THEN 256 ELSE bytes[i]],
                   LAMBDA c : c < 256))

encodeBinary(bytes) == btoa(encodeChunks(bytes, 0))

\* atob: [ok |-> FALSE] when it throws, else the characters (bytes) decoded
StripPad(s) ==
    IF Len(s) % 4 = 0 /\ Len(s) > 0 /\ s[Len(s)] = B64Pad
    THEN IF s[Len(s) - 1] = B64Pad THEN SubSeq(s, 1, Len(s) - 2)
                                  ELSE SubSeq(s, 1, Len(s) - 1)
    ELSE s

\* three bytes for every four characters, fewer for a short last group
DecodeSextets(s) ==
    IF Len(s) = 0 THEN <<>>
    ELSE [i \in 1..((Len(s) * 3) \div 4) |->
            LET k == 4 * ((i - 1) \div 3)
                q == (i - 1) % 3
            IN IF q = 0 THEN s[k + 1] * 4 + (s[k + 2] \div 16)
               ELSE IF q = 1 THEN (s[k + 2] % 16) * 16 + (s[k + 3] \div 4)
               ELSE (s[k + 3] % 4) * 64 + s[k + 4]]

atob(str) ==
    LET s == StripPad(str) IN
    IF Len(s) % 4 = 1 \/ \E i \in 1..Len(s) : s[i] > 63
    THEN [ok |-> FALSE, binary |-> <<>>]
    ELSE [ok |-> TRUE, binary |-> DecodeSextets(s)]

\* UTF-8 as TextDecoder reads it: the number of continuation bytes a lead byte
\* announces (0 for a byte that cannot lead), and the range of the second byte
Need(lead) ==
    IF lead >= 194 /\ lead <= 223 THEN 1
    ELSE IF lead >= 224 /\ lead <= 239 THEN 2
    ELSE IF lead >= 240 /\ lead <= 244 THEN 3
    ELSE 0

SecondLo(lead) == IF lead = 224 THEN 160 ELSE IF lead = 240 THEN 144 ELSE 128

SecondHi(lead) == IF lead = 237 THEN 159 ELSE IF lead = 244 THEN 143 ELSE 191

ContOk(b, k) ==
    /\ Len(b) >= k + 1
    /\ IF k = 1 THEN b[2] >= SecondLo(b[1]) /\ b[2] <= SecondHi(b[1])
               ELSE b[k + 1] >= 128 /\ b[k + 1] <= 191

\* how many of the announced continuation bytes follow
Matched(b) ==
    LET n == Need(b[1]) IN
    IF n >= 1 /\ ContOk(b, 1)
    THEN IF n >= 2 /\ ContOk(b, 2)
         THEN IF n >= 3 /\ ContOk(b, 3) THEN 3 ELSE 2
         ELSE 1
    ELSE 0

LeadBits(lead) ==
    IF Need(lead) = 1 THEN lead - 192 ELSE IF Need(lead) = 2 THEN lead - 224 ELSE lead - 240

RECURSIVE ContBits(_, _, _)
ContBits(b, k, acc) ==
    IF k = 0 THEN acc ELSE ContBits(Tail(b), k - 1, acc * 64 + (Head(b) - 128))

\* a malformed or truncated sequence gives one U+FFFD for its longest valid part
RECURSIVE utf8Decode(_)
utf8Decode(b) ==
    IF Len(b) = 0 THEN <<>>
    ELSE IF b[1] < 128 THEN <<b[1]>> \o utf8Decode(Tail(b))
    ELSE LET n == Need(b[1])
             k == Matched(b)
         IN IF n >= 1 /\ k = n
            THEN <<ContBits(Tail(b), n, LeadBits(b[1]))>>
                 \o utf8Decode(SubSeq(b, n + 2, Len(b)))
            ELSE <<65533>> \o utf8Decode(SubSeq(b, k + 2, Len(b)))

\* TextDecoder('utf-8').decode: a leading byte order mark is dropped
textDecoderDecode(b) ==
    IF Len(b) >= 3 /\ SubSeq(b, 1, 3) = <<239, 187, 191>>
    THEN utf8Decode(SubSeq(b, 4, Len(b)))
    ELSE utf8Decode(b)

\* the JSON body flushQueue posts for a payload it can encode
framePayload(rawData) ==
    IF rawData.kind = "string"
    THEN [type |-> "text", data |-> rawData.data, code |-> 0, reason |-> ""]
    ELSE [type |-> "binary", data |-> encodeBinary(rawData.data), code |-> 0, reason |-> ""]

closeFrame(code, reason) == [type |-> "close", data |-> <<>>, code |-> code, reason |-> reason]

\* ------------------------------------------------------------------ state
VARIABLES
    readyState,      \* CONNECTING, OPEN, CLOSING or CLOSED
    binaryType,      \* "blob" or "arraybuffer"
    protocol,        \* the negotiated sub-protocol
    connId,          \* "" for null, else the identifier the connect request returned
    isClosed,        \* the one-shot closed flag
    isSending,       \* a drain activity is running
    bufferedAmount,
    sendQueue,       \* sequence of [rawData, size]
    connectPc,       \* connect function: "fetch" (request in flight), "done"
    drainPc,         \* drain function: "idle", "arrayBuffer" (awaiting the Blob's bytes), "fetch"
    pollPc,          \* poll loop: "idle" (not started), "fetch", "done"
    closePc,         \* close function: "idle", "fetch" (notification in flight), "done"
    closeArgs,       \* the code and reason of the close() call being carried out
    events,          \* log: every event dispatched, in order
    requests,        \* log: every frame posted to the send endpoint, in order
    accepted,        \* log: every payload send() enqueued, in order
    sendThrew,       \* log: the last send() call threw
    failed,          \* log: the kinds of request that have failed
    pollCount,       \* log: number of poll requests issued
    listeners,       \* event type -> the listeners added for it, in insertion order
    handlers,        \* event type -> the function in the on<type> slot, or Null
    calls,           \* log: the functions the latest dispatch called, in order
    rtPc,            \* round trip of a payload: "none", "bytes", "wire", "data"
    rtBytes,         \* round trip: the bytes of the ArrayBuffer sent
    rtWire,          \* round trip: the data of the frame encodeBinary produced
    rtData           \* round trip: the data decodeMessage returned

vars == <<readyState, binaryType, protocol, connId, isClosed, isSending, bufferedAmount,
          sendQueue, connectPc, drainPc, pollPc, closePc, closeArgs, events, requests,
          accepted, sendThrew, failed, pollCount, listeners, handlers, calls,
          rtPc, rtBytes, rtWire, rtData>>

\* the socket's state as one record, for the functions below to transform;
\* listener is what the application's listeners do when called in this turn
Cur ==
    [readyState |-> readyState, binaryType |-> binaryType, protocol |-> protocol,
     connId |-> connId, isClosed |-> isClosed, isSending |-> isSending,
     bufferedAmount |-> bufferedAmount, sendQueue |-> sendQueue,
     connectPc |-> connectPc, drainPc |-> drainPc, pollPc |-> pollPc,
     closePc |-> closePc, closeArgs |-> closeArgs, events |-> events,
     requests |-> requests, accepted |-> accepted, sendThrew |-> sendThrew,
     failed |-> failed, pollCount |-> pollCount, listeners |-> listeners,
     handlers |-> handlers, calls |-> calls, listener |-> "none"]

\* the variables take the values of the record s, which is computed once
Commit(s) ==
    \E t \in {s} :
        /\ readyState' = t.readyState
        /\ binaryType' = t.binaryType
        /\ protocol' = t.protocol
        /\ connId' = t.connId
        /\ isClosed' = t.isClosed
        /\ isSending' = t.isSending
        /\ bufferedAmount' = t.bufferedAmount
        /\ sendQueue' = t.sendQueue
        /\ connectPc' = t.connectPc
        /\ drainPc' = t.drainPc
        /\ pollPc' = t.pollPc
        /\ closePc' = t.closePc
        /\ closeArgs' = t.closeArgs
        /\ events' = t.events
        /\ requests' = t.requests
        /\ accepted' = t.accepted
        /\ sendThrew' = t.sendThrew
        /\ failed' = t.failed
        /\ pollCount' = t.pollCount
        /\ listeners' = t.listeners
        /\ handlers' = t.handlers
        /\ calls' = t.calls
        /\ UNCHANGED <<rtPc, rtBytes, rtWire, rtData>>

\* ----------------------------------------------------------------- events
NoData == [kind |-> "none", value |-> <<>>]

\* new Event('open')
openEvent ==
    [type |-> "open", code |-> 0, reason |-> "", wasClean |-> FALSE, data |-> NoData]

messageEvent(data) ==
    [type |-> "message", code |-> 0, reason |-> "", wasClean |-> FALSE, data |-> data]

createErrorEvent(error) ==
    [type |-> "error", code |-> 0, reason |-> error, wasClean |-> FALSE, data |-> NoData]

createCloseEvent(code, reason, wasClean) ==
    [type |-> "close", code |-> code, reason |-> reason, wasClean |-> wasClean,
     data |-> NoData]

\* ------------------------------------------- listeners and handler slots
EventTypes == {"open", "message", "error", "close"}

\* an empty handler slot
Null == "null"

\* the functions the application registers: f returns, g throws
Callbacks == {"f", "g"}

Throws(fn) == fn = "g"

\* a value that is not a function
NotFunction == "notFunction"

IsFunction(value) == value \in Callbacks

InSeq(x, q) == \E i \in 1..Len(q) : q[i] = x

\* Set.prototype.add: a member keeps its place, a new value goes last
SetAdd(q, x) == IF InSeq(x, q) THEN q ELSE Append(q, x)

\* Set.prototype.delete
SetDelete(q, x) == SelectSeq(q, LAMBDA y : y # x)

addEventListener(s, type, listener) ==
    IF ~IsFunction(listener)
    THEN s
    ELSE [s EXCEPT !.listeners[type] = SetAdd(@, listener)]

removeEventListener(s, type, listener) ==
    [s EXCEPT !.listeners[type] = SetDelete(@, listener)]

\* the setter of on<type>
defineEventHandler(s, type, fn) ==
    [s EXCEPT !.handlers[type] = IF IsFunction(fn) THEN fn ELSE Null]

\* callEach without the try/catch around each call: the first exception ends it
RECURSIVE callEach_Uncaught(_)
callEach_Uncaught(fns) ==
    IF fns = <<>> THEN <<>>
    ELSE IF Throws(Head(fns)) THEN <<Head(fns)>>
    ELSE <<Head(fns)>> \o callEach_Uncaught(Tail(fns))

\* the functions called when each of fns is called in turn inside try/catch
RECURSIVE callEach(_)
callEach(fns) ==
    IF fns = <<>> THEN <<>>
    ELSE <<Head(fns)>> \o callEach(Tail(fns))

\* ------------------------------------------------------- connection state
changeState(s, state) == [s EXCEPT !.readyState = state]

RECURSIVE close(_, _, _)
RECURSIVE handleClose(_, _, _, _)

\* emit: the listeners of the event's type, then the handler in its slot, are
\* called, each with its exception caught; the log keeps the event and the
\* readyState they read. A function that calls back calls socket.close()
emit(s, event) ==
    LET handler == s.handlers[event.type]
        called == callEach(s.listeners[event.type])
                  \o (IF handler # Null THEN callEach(<<handler>>) ELSE <<>>)
        logged == [s EXCEPT !.events = Append(@, [event |-> event,
                                                  readyState |-> s.readyState]),
                            !.calls = called]
    IN IF called # <<>> /\ s.listener = "close" THEN close(logged, 1000, "") ELSE logged

\* socket.dispatchEvent
dispatchEvent(s, event) == emit(s, event)

\* handleClose without its test of the closed flag
handleClose_NoGuard(s, code, reason, wasClean) ==
    emit(changeState([s EXCEPT !.isClosed = TRUE], CLOSED),
         createCloseEvent(code, reason, wasClean))

handleClose(s, code, reason, wasClean) ==
    IF s.isClosed
    THEN s
    ELSE emit(changeState([s EXCEPT !.isClosed = TRUE], CLOSED),
              createCloseEvent(code, reason, wasClean))

\* error is the Error's message, "" for an error without one
handleError(s, error) ==
    IF s.isClosed
    THEN s
    ELSE handleClose(emit(s, createErrorEvent(error)), 1006,
                     IF error # "" THEN error ELSE "Unexpected error", FALSE)

handleOpen(s, negotiatedProtocol) ==
    emit(changeState([s EXCEPT !.protocol = negotiatedProtocol], OPEN), openEvent)

\* ------------------------------------------------------ outbound send queue
drainExit(s) == [s EXCEPT !.isSending = FALSE, !.drainPc = "idle"]

\* fetch(`/sw-cgi/websocket/send/${connId}`) with the head's payload: the request
\* is issued and the drain function awaits the response
postFrame(s) ==
    [s EXCEPT !.requests = Append(@, framePayload(Head(s.sendQueue).rawData)),
              !.drainPc = "fetch"]

\* the while loop of the drain function, from its condition to the next await
drainLoop(s) ==
    IF Len(s.sendQueue) > 0 /\ ~s.isClosed
    THEN LET rawData == Head(s.sendQueue).rawData IN
         IF rawData.kind = "string" THEN postFrame(s)
         ELSE IF rawData.kind = "blob" THEN [s EXCEPT !.drainPc = "arrayBuffer"]
         ELSE IF rawData.kind = "arraybuffer" THEN postFrame(s)
         ELSE IF rawData.kind = "view" THEN postFrame(s)
         ELSE drainExit(handleError(s, "Unsupported data type"))
    ELSE drainExit(s)

\* flushQueue without its test of the drain flag
flushQueue_NoSendingTest(s) ==
    IF Len(s.sendQueue) = 0 \/ s.isClosed
    THEN s
    ELSE drainLoop([s EXCEPT !.isSending = TRUE])

flushQueue(s) ==
    IF s.isSending \/ Len(s.sendQueue) = 0 \/ s.isClosed
    THEN s
    ELSE drainLoop([s EXCEPT !.isSending = TRUE])

\* queueSend putting the frame at the head of the queue (unshift for push)
queueSend_Unshift(s, rawData) ==
    IF s.readyState # OPEN
    THEN [s EXCEPT !.sendThrew = TRUE]
    ELSE LET size == calculateSize(rawData) IN
         flushQueue([s EXCEPT !.sendQueue = <<[rawData |-> rawData, size |-> size]>> \o @,
                              !.bufferedAmount = @ + size,
                              !.accepted = Append(@, rawData),
                              !.sendThrew = FALSE])

\* queueSend testing the closed flag instead of readyState
queueSend_TestsClosedFlag(s, rawData) ==
    IF s.isClosed
    THEN [s EXCEPT !.sendThrew = TRUE]
    ELSE LET size == calculateSize(rawData) IN
         flushQueue([s EXCEPT !.sendQueue = Append(@, [rawData |-> rawData, size |-> size]),
                              !.bufferedAmount = @ + size,
                              !.accepted = Append(@, rawData),
                              !.sendThrew = FALSE])

queueSend(s, rawData) ==
    IF s.readyState # OPEN
    THEN [s EXCEPT !.sendThrew = TRUE]
    ELSE LET size == calculateSize(rawData) IN
         flushQueue([s EXCEPT !.sendQueue = Append(@, [rawData |-> rawData, size |-> size]),
                              !.bufferedAmount = @ + size,
                              !.accepted = Append(@, rawData),
                              !.sendThrew = FALSE])

\* the drain function after `await rawData.arrayBuffer()`
blobRead(s) == postFrame(s)

\* submitAcked leaving bufferedAmount as it was
submitAcked_NoDecrement(s) == drainLoop([s EXCEPT !.sendQueue = Tail(@)])

\* the drain function after a response with response.ok
submitAcked(s) ==
    LET size == Head(s.sendQueue).size
        left == s.bufferedAmount - size
    IN drainLoop([s EXCEPT !.sendQueue = Tail(@),
                           !.bufferedAmount = IF left < 0 THEN 0 ELSE left])

\* the drain function after a rejected fetch or a response without response.ok
submitFailed(s, error) ==
    drainExit(handleError([s EXCEPT !.failed = @ \cup {"submit"}], error))

\* --------------------------------------------------------------- inbound
\* message[name], `undefined` when the message has no such property
Field(message, name) == IF name \in DOMAIN message THEN message[name] ELSE Undefined

\* [ok |-> FALSE] when it throws, else the data of the message event
decodeMessage(s, message) ==
    LET r == atob(message.data) IN
    IF ~r.ok THEN [ok |-> FALSE, data |-> NoData]
    ELSE IF Field(message, "messageType") = "text"
    THEN [ok |-> TRUE, data |-> [kind |-> "text", value |-> textDecoderDecode(r.binary)]]
    ELSE IF s.binaryType = "arraybuffer"
    THEN [ok |-> TRUE, data |-> [kind |-> "arraybuffer", value |-> r.binary]]
    ELSE [ok |-> TRUE, data |-> [kind |-> "blob", value |-> r.binary]]

\* handleMessage treating a decode failure as a transport error
handleMessage_DecodeFatal(s, message) ==
    IF s.readyState # OPEN THEN s
    ELSE IF Field(message, "type") = "close"
    THEN handleClose(s, IF message.code # 0 THEN message.code ELSE 1000,
                     message.reason, message.code = 1000)
    ELSE LET d == decodeMessage(s, message) IN
         IF ~d.ok THEN handleError(s, "Failed to decode message")
         ELSE emit(s, messageEvent(d.data))

\* a message's code is 0 and its reason "" when it carries none
handleMessage(s, message) ==
    IF s.readyState # OPEN THEN s
    ELSE IF Field(message, "type") = "close"
    THEN handleClose(s, IF message.code # 0 THEN message.code ELSE 1000,
                     message.reason, message.code = 1000)
    ELSE LET d == decodeMessage(s, message) IN
         IF ~d.ok THEN s ELSE emit(s, messageEvent(d.data))

RECURSIVE handleMessages(_, _)
handleMessages(s, messages) ==
    IF messages = <<>> THEN s
    ELSE handleMessages(handleMessage(s, Head(messages)), Tail(messages))

\* the while loop of the poll function, from its condition to the next await
pollLoop(s) ==
    IF ~s.isClosed
    THEN [s EXCEPT !.pollPc = "fetch", !.pollCount = @ + 1]
    ELSE [s EXCEPT !.pollPc = "done"]

startPolling(s) == pollLoop(s)

\* the poll function after a response with response.ok and a JSON body
pollResult(s, messages) ==
    pollLoop(handleMessages(s, messages))

\* the poll function after a rejected fetch, a response without response.ok or a
\* body that is not JSON
pollFailed(s, error) ==
    LET s1 == [s EXCEPT !.failed = @ \cup {"poll"}, !.pollPc = "done"] IN
    IF ~s1.isClosed THEN handleError(s1, error) ELSE s1

\* ------------------------------------------------------- close and connect
close(s, code, reason) ==
    IF s.isClosed \/ s.readyState = CLOSING
    THEN s
    ELSE LET s1 == changeState([s EXCEPT !.closeArgs = [code |-> code, reason |-> reason]],
                               CLOSING)
         IN IF s1.connId # ""
            THEN [s1 EXCEPT !.requests = Append(@, closeFrame(code, reason)),
                            !.closePc = "fetch"]
            ELSE [handleClose(s1, code, reason, code = 1000) EXCEPT !.closePc = "done"]

\* closeNotified with handleClose inside the try block: skipped when fetch rejects
closeNotified_SkipOnReject(s, outcome) ==
    IF outcome = "rejected"
    THEN [s EXCEPT !.closePc = "done"]
    ELSE [handleClose(s, s.closeArgs.code, s.closeArgs.reason, s.closeArgs.code = 1000)
             EXCEPT !.closePc = "done"]

\* the close function after its fetch settled: fulfilled with any status
\* ("ok", "status"), or rejected and the rejection caught ("rejected")
closeNotified(s, outcome) ==
    [handleClose(s, s.closeArgs.code, s.closeArgs.reason, s.closeArgs.code = 1000)
        EXCEPT !.closePc = "done"]

\* the connect function after a response with response.ok and a JSON body
connected(s, result) ==
    startPolling(handleOpen([s EXCEPT !.connId = result.connId, !.connectPc = "done"],
                            result.protocol))

connectFailed(s, error) ==
    handleError([s EXCEPT !.failed = @ \cup {"open"}, !.connectPc = "done"], error)

setBinaryType(s, value) ==
    IF value = "arraybuffer"
    THEN [s EXCEPT !.binaryType = "arraybuffer"]
    ELSE [s EXCEPT !.binaryType = "blob"]

\* ----------------------------------------------------------------- inputs
Str(cps) == [kind |-> "string", data |-> cps]
Bin(kind, bytes) == [kind |-> kind, data |-> bytes]

\* what the application passes to send(): the string "éb", a Blob of two bytes
\* and a number
Payloads == { Str(<<233, 98>>), Bin("blob", <<0, 255>>), Bin("number", <<>>) }

Msg(type, data, code, reason) ==
    [type |-> type, data |-> data, code |-> code, reason |-> reason]

\* what a poll response carries: a text item ("hi"), an item whose data is not
\* radix-64 text, a close notification with code and reason and one with neither
Messages ==
    { Msg("text", btoa(<<104, 105>>), 0, ""),
      Msg("binary", <<B64Bad>>, 0, ""),
      Msg("close", <<>>, 1000, "bye"),
      Msg("close", <<>>, 0, "") }

RECURSIVE SeqsUpTo(_, _)
SeqsUpTo(S, n) ==
    IF n = 0 THEN {<<>>}
    ELSE LET shorter == SeqsUpTo(S, n - 1) IN
         shorter \cup {Append(q, x) : q \in {p \in shorter : Len(p) = n - 1}, x \in S}

Batches == SeqsUpTo(Messages, MaxBatch)

ConnectResults == {[connId |-> "c1", protocol |-> "chat"]}

\* what the listeners of a turn do: return, or call socket.close()
ListenerCalls == {"none", "close"}

ConnectErrors == {"Connection failed: 500", ""}
SendErrors == {"Send failed: 500"}
PollErrors == {"Poll failed: 500"}

CloseCodes == {1000, 4000}
CloseReasons == {""}
BinaryTypes == {"arraybuffer", "blob", "nodebuffer"}
NotifyOutcomes == {"ok", "status", "rejected"}

\* the types the application registers for and dispatches itself
AppTypes == {"message", "error"}

AppEvents == {messageEvent([kind |-> "text", value |-> <<>>]), createErrorEvent("")}

ListenerValues == Callbacks \cup {NotFunction}

\* ---------------------------------------------------------------- actions
\* the socket createHttpBridgeWebSocket returns, its connect request in flight
Constructed ==
    /\ readyState = CONNECTING
    /\ binaryType = "blob"
    /\ protocol = ""
    /\ connId = ""
    /\ isClosed = FALSE
    /\ isSending = FALSE
    /\ bufferedAmount = 0
    /\ sendQueue = <<>>
    /\ connectPc = "fetch"
    /\ drainPc = "idle"
    /\ pollPc = "idle"
    /\ closePc = "idle"
    /\ closeArgs = [code |-> 0, reason |-> ""]
    /\ events = <<>>
    /\ requests = <<>>
    /\ accepted = <<>>
    /\ sendThrew = FALSE
    /\ failed = {}
    /\ pollCount = 0
    /\ listeners = [type \in EventTypes |-> <<>>]
    /\ calls = <<>>

NoRoundTrip ==
    /\ rtPc = "none"
    /\ rtBytes = <<>>
    /\ rtWire = <<>>
    /\ rtData = NoData

\* the application has set its four handlers in the turn of the construction
Init ==
    /\ Constructed
    /\ handlers = [type \in EventTypes |-> "f"]
    /\ NoRoundTrip

Calling(call) == [Cur EXCEPT !.listener = call]

\* socket.send(data)
SendCall(data, call) == Commit(queueSend(Calling(call), data))

Send ==
    /\ Len(accepted) < MaxSends
    /\ \E data \in Payloads, call \in ListenerCalls : SendCall(data, call)

\* socket.close(code, reason)
Close ==
    \E code \in CloseCodes, reason \in CloseReasons :
        /\ code \in Int
        /\ Commit(close(Cur, code, reason))

\* socket.binaryType = value
SetBinaryType ==
    \E value \in BinaryTypes :
        /\ setBinaryType(Cur, value).binaryType # binaryType
        /\ Commit(setBinaryType(Cur, value))

ConnectOk ==
    /\ connectPc = "fetch"
    /\ \E result \in ConnectResults, call \in ListenerCalls :
          Commit(connected(Calling(call), result))

ConnectFail ==
    /\ connectPc = "fetch"
    /\ \E error \in ConnectErrors, call \in ListenerCalls :
          Commit(connectFailed(Calling(call), error))

BlobRead ==
    /\ drainPc = "arrayBuffer"
    /\ Commit(blobRead(Cur))

SubmitOk ==
    /\ drainPc = "fetch"
    /\ Commit(submitAcked(Cur))

SubmitFail ==
    /\ drainPc = "fetch"
    /\ \E error \in SendErrors, call \in ListenerCalls :
          Commit(submitFailed(Calling(call), error))

PollResult(messages, call) == Commit(pollResult(Calling(call), messages))

\* the responses to the first MaxPolls poll requests are modelled
PollOk ==
    /\ pollPc = "fetch"
    /\ pollCount <= MaxPolls
    /\ \E messages \in Batches, call \in ListenerCalls : PollResult(messages, call)

PollFail ==
    /\ pollPc = "fetch"
    /\ pollCount <= MaxPolls
    /\ \E error \in PollErrors, call \in ListenerCalls :
          Commit(pollFailed(Calling(call), error))

CloseNotifyDone ==
    /\ closePc = "fetch"
    /\ \E outcome \in NotifyOutcomes : Commit(closeNotified(Cur, outcome))

\* every step but the binaryType setter, which writes binaryType alone
NextCore ==
    \/ Send
    \/ Close
    \/ ConnectOk
    \/ ConnectFail
    \/ BlobRead
    \/ SubmitOk
    \/ SubmitFail
    \/ PollOk
    \/ PollFail
    \/ CloseNotifyDone

Next ==
    \/ NextCore
    \/ SetBinaryType

Spec == Init /\ [][Next]_vars

\* the close notification request eventually settles: the one request whose
\* completion the closing of the socket waits for (a request that fails
\* finalizes in the turn that handles the failure). binaryType, which only
\* decodeMessage reads, keeps its initial value
FairSpec ==
    /\ Init
    /\ [][NextCore]_vars
    /\ WF_vars(CloseNotifyDone)

\* the socket of an application that sends nothing: the connect request, the
\* poll loop and the ways the socket closes
NextPoll ==
    \/ Close
    \/ SetBinaryType
    \/ ConnectOk
    \/ ConnectFail
    \/ PollOk
    \/ PollFail
    \/ CloseNotifyDone

PollSpec == Init /\ [][NextPoll]_vars

\* ---------------------------------------- the registry and dispatchEvent
AddCall(type, listener) == Commit(addEventListener(Cur, type, listener))

AddEventListener ==
    \E type \in AppTypes, listener \in ListenerValues :
        /\ addEventListener(Cur, type, listener) # Cur
        /\ AddCall(type, listener)

RemoveEventListener ==
    \E type \in AppTypes, listener \in ListenerValues :
        /\ removeEventListener(Cur, type, listener) # Cur
        /\ Commit(removeEventListener(Cur, type, listener))

SetHandler ==
    \E type \in AppTypes, fn \in ListenerValues :
        /\ defineEventHandler(Cur, type, fn) # Cur
        /\ Commit(defineEventHandler(Cur, type, fn))

DispatchCall(event) == Commit(dispatchEvent(Cur, event))

DispatchEvent ==
    /\ Len(events) < MaxDispatch
    /\ \E event \in AppEvents : DispatchCall(event)

NextDispatch ==
    \/ AddEventListener
    \/ RemoveEventListener
    \/ SetHandler
    \/ DispatchEvent

DispatchInit ==
    /\ Constructed
    /\ handlers = [type \in EventTypes |-> Null]
    /\ NoRoundTrip

DispatchSpec == DispatchInit /\ [][NextDispatch]_vars

\* ------------------------------------- a binary payload's round trip
SampleBytes == {0, 65, 255}

\* n bytes running through all byte values
Pattern(n) == [i \in 1..n |-> (i * 7) % 256]

\* lengths around one encoding chunk, one for each length of the last group
LongLens == {chunkSize, chunkSize + 1, chunkSize + 2}

ByteSeqs == SeqsUpTo(SampleBytes, MaxLen) \cup {Pattern(n) : n \in LongLens}

CodecInit ==
    /\ Constructed
    /\ handlers = [type \in EventTypes |-> Null]
    /\ rtPc = "bytes"
    /\ rtBytes \in ByteSeqs
    /\ rtWire = <<>>
    /\ rtData = NoData

socketVars ==
    <<readyState, binaryType, protocol, connId, isClosed, isSending, bufferedAmount,
      sendQueue, connectPc, drainPc, pollPc, closePc, closeArgs, events, requests,
      accepted, sendThrew, failed, pollCount, listeners, handlers, calls>>

\* the drain function's encoding of an ArrayBuffer
Encode ==
    /\ rtPc = "bytes"
    /\ rtWire' = framePayload(Bin("arraybuffer", rtBytes)).data
    /\ rtPc' = "wire"
    /\ UNCHANGED <<socketVars, rtBytes, rtData>>

\* decodeMessage on the binary item carrying that data
Decode ==
    /\ rtPc = "wire"
    /\ LET d == decodeMessage(Cur, Msg("binary", rtWire, 0, ""))
       IN rtData' = IF d.ok THEN d.data ELSE [kind |-> "threw", value |-> <<>>]
    /\ rtPc' = "data"
    /\ UNCHANGED <<socketVars, rtBytes, rtWire>>

NextCodec ==
    \/ Encode
    \/ Decode
    \/ SetBinaryType

CodecSpec == CodecInit /\ [][NextCodec]_vars

\* ------------------------------------------------------------- properties
EventType(i) == events[i].event.type

CloseCount == Cardinality({i \in 1..Len(events) : EventType(i) = "close"})

IsDataFrame(f) == f.type # "close"

DataFrames == SelectSeq(requests, IsDataFrame)

\* accepted frames the transport has acknowledged
Acked == Len(accepted) - Len(sendQueue)

\* C1: the data frames posted to the send endpoint are, in order, the frames of
\* the first accepted payloads: every acknowledged payload was posted, at most
\* one posted frame is unacknowledged, and no frame is posted out of call order
\* or a second time.
C1_FifoPrefix ==
    /\ Len(DataFrames) <= Len(accepted)
    /\ \A i \in 1..Len(DataFrames) : DataFrames[i] = framePayload(accepted[i])
    /\ Len(DataFrames) >= Acked
    /\ Len(DataFrames) <= Acked + 1

\* two different payloads accepted, both posted, a close() call in between or after
C1_Witness ==
    /\ Len(accepted) = 2
    /\ accepted[1] # accepted[2]
    /\ Len(DataFrames) = 2
    /\ closePc # "idle"

\* C2 (its last clause): once readyState is CLOSED it never takes another value.
C2_ClosedIsFinal == [][readyState = CLOSED => readyState' = CLOSED]_vars

\* C3: at most one close event is ever dispatched, and the close function's
\* call of handleClose after the closed flag is set changes nothing but the
\* close function's own position.
C3_SingleClose ==
    /\ [](CloseCount <= 1)
    /\ [][(isClosed /\ CloseNotifyDone) =>
            UNCHANGED <<readyState, binaryType, protocol, connId, isClosed, isSending,
                        bufferedAmount, sendQueue, connectPc, drainPc, pollPc, closeArgs,
                        events, requests, accepted, sendThrew, failed, pollCount>>]_vars

\* the close notification settled after a failure had already finalized the socket
C3_Witness ==
    /\ closePc = "done"
    /\ connId # ""
    /\ \E i \in 1..Len(events) : EventType(i) = "error"
    /\ CloseCount = 1

\* C4: bufferedAmount is never negative and is the sum of the sizes of the
\* frames in sendQueue, which are the accepted payloads not yet acknowledged.
C4_BufferedAmount ==
    /\ bufferedAmount >= 0
    /\ bufferedAmount = SumSeq([i \in 1..Len(sendQueue) |-> sendQueue[i].size])
    /\ Len(sendQueue) <= Len(accepted)
    /\ \A i \in 1..Len(sendQueue) :
          /\ sendQueue[i].rawData = accepted[Acked + i]
          /\ sendQueue[i].size = calculateSize(accepted[Acked + i])

\* the string (3 bytes) was acknowledged, the Blob (2 bytes) is still queued
C4_Witness ==
    /\ Len(accepted) = 2
    /\ Len(sendQueue) = 1
    /\ accepted[1].kind = "string"
    /\ bufferedAmount = 2

\* C5: a send() call while readyState is not OPEN throws and changes nothing
\* else: not the queue, bufferedAmount, readyState or the drain flag, and no
\* request is posted. (Only send() writes the logs sendThrew and accepted, and
\* a send() step that changes neither changes nothing.)
C5_SendRejected ==
    [][(/\ readyState # OPEN
        /\ sendThrew' # sendThrew \/ accepted' # accepted
        /\ \E data \in Payloads, call \in ListenerCalls : SendCall(data, call)) =>
          /\ sendThrew'
          /\ UNCHANGED <<readyState, binaryType, protocol, connId, isClosed, isSending,
                         bufferedAmount, sendQueue, connectPc, drainPc, pollPc, closePc,
                         closeArgs, events, requests, accepted, failed, pollCount>>]_vars

\* send() threw while the close notification was in flight, a frame still queued
C5_Witness ==
    /\ sendThrew
    /\ readyState = CLOSING
    /\ Len(sendQueue) > 0

\* C6: every error event in the log is directly followed by a close event with
\* code 1006 and wasClean false, dispatched with readyState CLOSED.
C6_ErrorThenClose ==
    \A i \in 1..Len(events) :
        EventType(i) = "error" =>
            /\ i < Len(events)
            /\ EventType(i + 1) = "close"
            /\ events[i + 1].event.code = 1006
            /\ ~events[i + 1].event.wasClean
            /\ events[i + 1].readyState = CLOSED

\* C7: a submit or poll failure while readyState is CLOSING or CLOSED
\* dispatches no event: no error event and no close event with code 1006.
C7_SuppressedWhileClosing ==
    [][((SubmitFail \/ PollFail) /\ readyState \in {CLOSING, CLOSED}) =>
          events' = events]_vars

\* C8: no event follows the close event in the log.
C8_CloseIsTerminal ==
    \A i \in 1..Len(events) : EventType(i) = "close" => i = Len(events)

\* a close event dispatched with readyState CLOSED is in the log
ClosedAndNotified ==
    \E i \in 1..Len(events) : EventType(i) = "close" /\ events[i].readyState = CLOSED

\* C9: once a close() call has passed its guard, or an open, submit or poll
\* request has failed, the socket eventually reaches CLOSED and dispatches its
\* close event, however the close notification ends.
C9_EventuallyClosed == (closePc # "idle" \/ failed # {}) ~> ClosedAndNotified

\* closed by close() alone: the notification was posted and settled, nothing failed
C9_Witness ==
    /\ closePc = "done"
    /\ connId # ""
    /\ failed = {}
    /\ readyState = CLOSED
    /\ ClosedAndNotified

HasClose(messages) == \E k \in 1..Len(messages) : messages[k].type = "close"

FirstClose(messages) ==
    CHOOSE k \in 1..Len(messages) :
        /\ messages[k].type = "close"
        /\ \A j \in 1..(k - 1) : messages[j].type # "close"

\* readyState when the k-th item of a poll response is handled
StateAt(messages, k, call) ==
    handleMessages(Calling(call), SubSeq(messages, 1, k - 1)).readyState

\* C10: a poll response with a close notification, processed while OPEN, leaves
\* the socket CLOSED with a close event as the last event, carrying the
\* notification's code (when it has one) and reason, wasClean exactly when the
\* event's code is 1000; the items after the notification add no event.
C10_RemoteClose ==
    [][\A messages \in Batches, call \in ListenerCalls :
          (/\ pollPc = "fetch"
           /\ HasClose(messages)
           /\ StateAt(messages, FirstClose(messages), call) = OPEN
           /\ PollResult(messages, call)) =>
             LET k == FirstClose(messages)
                 e == events'[Len(events')].event
             IN /\ readyState' = CLOSED
                /\ Len(events') <= Len(events) + k
                /\ e.type = "close"
                /\ (messages[k].code # 0 => e.code = messages[k].code)
                /\ e.reason = messages[k].reason
                /\ (e.wasClean <=> e.code = 1000)]_vars

\* a payload that is no string, Blob, ArrayBuffer or typed-array view
Unsupported(data) == data.kind \notin {"string", "blob", "arraybuffer", "view"}

\* C11: a send() call while OPEN with a payload the codec cannot encode throws
\* to its caller and leaves the connection alone: readyState stays OPEN,
\* nothing is enqueued and no event is dispatched.
C11_UnsupportedRejected ==
    [][\A data \in Payloads, call \in ListenerCalls :
          (Unsupported(data) /\ readyState = OPEN /\ SendCall(data, call)) =>
             /\ sendThrew'
             /\ readyState' = OPEN
             /\ sendQueue' = sendQueue
             /\ events' = events]_vars

NoDup(q) == \A i, j \in 1..Len(q) : q[i] = q[j] => i = j

IsPrefix(p, q) == Len(p) <= Len(q) /\ SubSeq(q, 1, Len(p)) = p

\* C12: a dispatch calls every listener of the event's type once, in the order
\* they were added, then the handler if the slot holds a function, whichever of
\* them throw; a listener is stored once, and adding one keeps the others' order.
C12_DispatchOrder ==
    /\ [](\A type \in EventTypes : NoDup(listeners[type]))
    /\ [][\A type \in AppTypes, listener \in ListenerValues :
            AddCall(type, listener) =>
               /\ IsPrefix(listeners[type], listeners'[type])
               /\ IsFunction(listener) => InSeq(listener, listeners'[type])]_vars
    /\ [][\A event \in AppEvents :
            DispatchCall(event) =>
               calls' = listeners[event.type]
                        \o (IF handlers[event.type] # Null
                            THEN <<handlers[event.type]>> ELSE <<>>)]_vars

\* a dispatch called the throwing listener, the listener added after it and the
\* handler
C12_Witness ==
    /\ Len(calls) = 3
    /\ Throws(calls[1])
    /\ ~Throws(calls[2])
    /\ \E type \in AppTypes : handlers[type] = calls[3] /\ listeners[type] = SubSeq(calls, 1, 2)

C14_RoundTrip ==
    rtPc = "data" =>
        /\ rtData.kind \in {"arraybuffer", "blob"}
        /\ rtData.value = rtBytes

\* bytes beyond one chunk came back, as an ArrayBuffer
C14_Witness ==
    /\ rtPc = "data"
    /\ Len(rtBytes) > chunkSize
    /\ rtData.kind = "arraybuffer"
    /\ rtData.value = rtBytes

\* C15: a drain activity is running exactly while the drain flag is set, so a
\* second one never starts beside it; a data frame is posted only when no
\* submit request is in flight or by the step that handles the response to the
\* one in flight, one at a time; a poll request is issued only when none is in
\* flight or by the step that handles the response to the one in flight.
C15_OneInFlight ==
    /\ [](isSending <=> drainPc # "idle")
    /\ [][Len(DataFrames') # Len(DataFrames) =>
            /\ drainPc # "fetch" \/ SubmitOk
            /\ Len(DataFrames') = Len(DataFrames) + 1]_vars
    /\ [][pollCount' # pollCount =>
            /\ pollPc # "fetch" \/ PollOk
            /\ pollCount' = pollCount + 1]_vars

\* the second frame and the second poll request are in flight together
C15_Witness ==
    /\ Len(DataFrames) = 2
    /\ drainPc = "fetch"
    /\ pollCount = 2
    /\ pollPc = "fetch"

\* C16: a poll request is issued only while readyState is OPEN and the closed
\* flag is not set: none once close() has moved the socket to CLOSING or the
\* socket has been finalized.
C16_PollOnlyWhileOpen ==
    [][pollCount' # pollCount => (readyState' = OPEN /\ ~isClosed')]_vars

\* a frame posted to the send endpoint after the i-th
LaterData(i) == \E j \in (i + 1)..Len(requests) : IsDataFrame(requests[j])

\* C17: no data frame is posted after the close notification frame: the frames
\* still queued when close() is called are not submitted.
C17_NoDataAfterClose ==
    \A i \in 1..Len(requests) : requests[i].type = "close" => ~LaterData(i)

\* the data of the last event dispatched in a step
LastData == events'[Len(events')].event.data

\* C18: a poll response with one item, handled while OPEN: an item of type
\* "text" is delivered as a message event whose data is the decoded text, an
\* item of type "binary" as one whose data is the bytes in the current binary
\* mode, and an item of any other type but "close" dispatches nothing.
C18_RoutedByType ==
    [][\A messages \in Batches, call \in ListenerCalls :
          (/\ Len(messages) = 1
           /\ readyState = OPEN
           /\ pollPc = "fetch"
           /\ PollResult(messages, call)) =>
             LET m == messages[1]
                 r == atob(m.data)
             IN /\ (m.type = "text" /\ r.ok) =>
                      /\ Len(events') = Len(events) + 1
                      /\ LastData = [kind |-> "text", value |-> textDecoderDecode(r.binary)]
                /\ (m.type = "binary" /\ r.ok) =>
                      /\ Len(events') = Len(events) + 1
                      /\ LastData = [kind |-> binaryType, value |-> r.binary]
                /\ m.type \notin {"text", "binary", "close"} => events' = events]_vars

\* an item decodeMessage does not throw on
Decodable(m) == m.type = "close" \/ atob(m.data).ok

\* what the claim speaks of: the events, the connection state and the poll loop
Observed(s) ==
    [events |-> s.events, readyState |-> s.readyState, isClosed |-> s.isClosed,
     pollPc |-> s.pollPc, pollCount |-> s.pollCount]

\* C19: wherever a poll request is in flight, handling its response leaves the
\* events, readyState, the closed flag and the poll loop as handling the same
\* response without its undecodable items would: those items dispatch nothing
\* and change nothing, the other items are delivered in order and the poll
\* loop goes on; a response of undecodable items alone, on a socket not
\* finalized, changes nothing but to issue the next poll request.
C19_DecodeFailureLocal ==
    pollPc = "fetch" =>
        \A messages \in Batches, call \in ListenerCalls :
            LET good == SelectSeq(messages, Decodable)
                t == pollResult(Calling(call), messages)
            IN /\ Observed(t) = Observed(pollResult(Calling(call), good))
               /\ (good = <<>> /\ ~isClosed) =>
                     Observed(t) = [Observed(Cur) EXCEPT !.pollCount = @ + 1]

\* the state a response of the undecodable item followed by the text item
\* leaves: the open event and one message event dispatched, the socket still
\* OPEN, the second poll request in flight
C19_Witness ==
    /\ readyState = OPEN
    /\ ~isClosed
    /\ pollCount = 2
    /\ pollPc = "fetch"
    /\ Len(events) = 2
    /\ events[2].event.type = "message"
    /\ Observed(Cur) = Observed(pollResult([Cur EXCEPT !.events = SubSeq(@, 1, 1),
                                                       !.pollCount = 1],
                                           <<Msg("binary", <<B64Bad>>, 0, ""),
                                             Msg("text", btoa(<<104, 105>>), 0, "")>>))

\* C20: the closed flag is set exactly when readyState is CLOSED.
C20_FlagMatchesState == isClosed <=> readyState = CLOSED

====
